---- MODULE Spec2Model ----
(***************************************************************************)
(* Model of the item statistics view (ItemStatistics, src/unnamed/part_000) *)
(* of the admin panel: the price fetch with its mock-data fallback, the     *)
(* period filter, the down-sampling of the displayed series and the zoom    *)
(* handlers.                                                                *)
(*                                                                          *)
(* Encoding.  Time is counted in whole days since 1970-01-01 (the time of   *)
(* day is dropped), so a timestamp is a day number.  Prices are counted in  *)
(* hundredths (the code rounds to two decimals).  NaN (an unparsable date's *)
(* getTime(), a non-numeric price) is the number NaN below, which no day    *)
(* number and no price equals.  A null state field is the empty tuple.      *)
(***************************************************************************)
EXTENDS Integers, Sequences, FiniteSets, Bags, TLC

VARIABLES
    itemName,           \* searchParams.get("name") || "Unknown Item", as character codes
    mounted,            \* the mount effect (the initial fetch) has run
    isLoading,
    isRefreshing,
    error,              \* <<>> (null) or the message, as a tuple of its parts
    priceData,
    filteredData,
    displayData,
    stats,              \* <<>> (null) or <<the PriceStats record>>
    selectedPeriod,
    zoomDomain,         \* <<>> (null) or <<x[0], x[1]>>
    dataPointLimit,
    showNoDataMessage,
    inflight,           \* bag of the fetches not yet settled: the selectedPeriod each closure captured
    now,                \* the clock: new Date(), in days
    lastStep,           \* history: the handler that ran last
    filterNow,          \* history: the clock when filterDataByPeriod last ran
    zoomBefore,         \* history: zoomDomain before the last handler
    fetched,            \* history: some fetch has settled
    events,             \* history: the user events and clock ticks so far
    longHoverTimeout,   \* <<>> (null) or the timer id last passed to setLongHoverTimeout
    renderedTimeout,    \* longHoverTimeout as of the committed render: what the handlers and the effect cleanup close over
    hoverTimers,        \* the pending setTimeout callbacks: <<id, the event had an activePayload>>
    longHoverInfo,      \* <<>> (null) or <<id of the timer that set it>>
    nextTimerId,        \* the id the next setTimeout returns
    unmounted,          \* the component has been torn down
    download,           \* null, <<the lines of the exported CSV file>>, or <<"TypeError">> when exportData threw
    mockBasePrice,      \* history: <<>> or <<the basePrice of the last generateMockData call>>
    serverStats,        \* dashboard: the serverStats state
    counts,             \* dashboard: the counts state
    dashboardLoading,   \* dashboard: the isLoading state
    dashboardError,     \* dashboard: the error state, <<>> for null
    dashboardPc,        \* dashboard: where fetchData stands: "unmounted", "serverStats", "entityCounts", "done"
    serverStatsReply,   \* history: <<>> or <<what /api/server-stats answered>>
    entityReplies,      \* history: <<>> or <<what the six entity routes answered>>
    proxyAwait,         \* /api/types: <<>> or <<the await a handler is suspended at>>
    abortTimer,         \* /api/types: the setTimeout that aborts GET's fetch is armed
    upstreamReply,      \* /api/types: <<>> or <<what the upstream API did with the forwarded request>>
    proxyResponse,      \* /api/types: <<>> or <<the response the route handler returned>>
    upstreamStats,      \* history: <<>> or <<data.stats of the payload whose stats are stored>>
    roundTrip           \* history: <<"in", z>> after a zoom-in on range z, <<"out", z>> after the zoom-out that follows it

vars == <<itemName, mounted, isLoading, isRefreshing, error, priceData, filteredData,
          displayData, stats, selectedPeriod, zoomDomain, dataPointLimit,
          showNoDataMessage, inflight, now, lastStep, filterNow, zoomBefore, roundTrip, events, fetched, upstreamStats,
          longHoverTimeout, renderedTimeout, hoverTimers, longHoverInfo, nextTimerId, unmounted,
          download,
          mockBasePrice,
          serverStats, counts, dashboardLoading, dashboardError, dashboardPc, serverStatsReply, entityReplies,
          proxyAwait, abortTimer,
          upstreamReply, proxyResponse>>

\* what the Export button produced
exportVars == <<download>>

\* the local basePrice of generateMockData
mockVars == <<mockBasePrice>>

\* the state of the dashboard page (src/app/dashboard/page.tsx)
dashboardVars == <<serverStats, counts, dashboardLoading, dashboardError, dashboardPc,
                   serverStatsReply, entityReplies>>

\* a /api/types handler suspended at an await, and GET's abort timer
proxyWaitVars == <<proxyAwait, abortTimer>>

\* the last exchange of the /api/types route
proxyVars == <<upstreamReply, proxyResponse>>

\* the state of the long-hover detection
hoverVars == <<longHoverTimeout, renderedTimeout, hoverTimers, longHoverInfo, nextTimerId, unmounted>>

(***************************************************************************)
(* Bounds of the model.                                                     *)
(***************************************************************************)
\* User events (Refresh, a period button, a zoom button) and clock ticks (days) in a behaviour.
MaxEvents == 3
\* Longest series given to optimizeDataForDisplay on its own.
MaxLen == 5
\* Largest display limit given to optimizeDataForDisplay on its own.
MaxLimit == 4

(***************************************************************************)
(* Program constants.                                                       *)
(***************************************************************************)
DefaultDataPointLimit == 1000000
MockDays == 365
MinZoomRange == 10
ZoomResetMargin == 5

NaN == 0 - 1
\* A Date string that new Date() cannot parse.
BadDate == 0 - 2
\* A field that is present and truthy but not a number (a non-empty string such as
\* "abc", an object).
Malformed == 0 - 3
\* typeof v === "number" and not NaN; the three values above stand for what is not a
\* number, and no price, day or stats field among the inputs takes them
IsNumber(v) == v \notin {NaN, BadDate, Malformed}

Null == <<>>

Periods == {"1W", "1M", "3M", "6M", "1Y", "ALL"}

\* The day the clock starts at: 2024-03-31 (a day whose month arithmetic overflows).
Today0 == 19813

Min(a, b) == IF a <= b THEN a ELSE b
Max(a, b) == IF a >= b THEN a ELSE b
\* Math.ceil(a / b) for a >= 0, b > 0
CeilDiv(a, b) == (a + b - 1) \div b
\* a / b rounded to the nearest integer, halves away from zero (toFixed), b > 0
RoundDiv(a, b) == IF a >= 0 THEN (2 * a + b) \div (2 * b) ELSE 0 - ((2 * (0 - a) + b) \div (2 * b))

(***************************************************************************)
(* The calendar behind Date: day number <-> (year, month, day).             *)
(***************************************************************************)
\* The civil-from-days and days-from-civil conversions, years counted from March
\* in eras of 400 years (146097 days); day 0 is 1970-01-01.
DayOfYear(mp, d) == (153 * mp + 2) \div 5 + d - 1

DayOfEra(yoe, doy) == yoe * 365 + yoe \div 4 - yoe \div 100 + doy

DaysFromShifted(yy, mp, d) ==
    (yy \div 400) * 146097 + DayOfEra(yy % 400, DayOfYear(mp, d)) - 719468

\* month in 1..12
DaysFromCivil(y, m, d) ==
    DaysFromShifted(IF m <= 2 THEN y - 1 ELSE y, IF m > 2 THEN m - 3 ELSE m + 9, d)

YearOfEra(doe) == (doe - doe \div 1460 + doe \div 36524 - doe \div 146096) \div 365

CivilOf(era, yoe, doy, mp) ==
    [year  |-> yoe + era * 400 + (IF mp >= 10 THEN 1 ELSE 0),
     month |-> IF mp < 10 THEN mp + 2 ELSE mp - 10,
     date  |-> doy - (153 * mp + 2) \div 5 + 1]

CivilFromDoy(era, yoe, doy) == CivilOf(era, yoe, doy, (5 * doy + 2) \div 153)

CivilFromYoe(era, doe, yoe) ==
    CivilFromDoy(era, yoe, doe - (365 * yoe + yoe \div 4 - yoe \div 100))

\* getFullYear(), getMonth() (0-based) and getDate() of a day
CivilFromDays(z) ==
    CivilFromYoe((z + 719468) \div 146097, (z + 719468) % 146097,
                 YearOfEra((z + 719468) % 146097))

\* new Date(year, month, date) with month (0-based) and date out of range carried over
MakeDay(year, month, date) ==
    DaysFromCivil(year + (month \div 12), (month % 12) + 1, 1) + date - 1

\* cutoffDate after the switch of filterDataByPeriod, period other than ALL; c is today
CutoffFrom(period, c) ==
    CASE period = "1W" -> MakeDay(c.year, c.month, c.date - 7)
      [] period = "1M" -> MakeDay(c.year, c.month - 1, c.date)
      [] period = "3M" -> MakeDay(c.year, c.month - 3, c.date)
      [] period = "6M" -> MakeDay(c.year, c.month - 6, c.date)
      [] period = "1Y" -> MakeDay(c.year - 1, c.month, c.date)

CutoffDate(period, today) == CutoffFrom(period, CivilFromDays(today))

(***************************************************************************)
(* generateMockData                                                         *)
(***************************************************************************)
\* Math.sin(i / 30) * 20 + Math.sin(i) * 10 + Math.cos(i * 2) * 5 + (i / 365) * 50,
\* in hundredths, for i = 0 .. 365 (entry i + 1)
MockWave ==
  <<
     500, 714, 743, 862, -509, -978, 622, 1284, 1147, 1457, 451, -632,
     619, 1762, 1601, 1892, 1365, -79, 561, 2071, 2090, 2213, 2131, 640,
     538, 2173, 2562, 2478, 2688, 1439, 630, 2075, 2937, 2735, 3027, 2207,
     882, 1836, 3137, 2996, 3182, 2836, 1290, 1547, 3109, 3238, 3217, 3252,
     1798, 1304, 2845, 3403, 3199, 3427, 2316, 1186, 2387, 3419, 3172, 3385,
     2743, 1226, 1823, 3229, 3142, 3189, 2994, 1407, 1262, 2809, 3080, 2918,
     3027, 1666, 808, 2186, 2930, 2643, 2849, 1914, 529, 1438, 2632, 2400,
     2516, 2064, 445, 673, 2153, 2188, 2110, 2057, 523, 10, 1499, 1968,
     1714, 1881, 691, -457, 726, 1685, 1391, 1571, 861, -676, -67, 1292,
     1162, 1199, 958, -651, -763, 771, 1007, 851, 943, -438, -1253, 152,
     874, 602, 824, -123, -1462, -493, 704, 491, 650, 204, -1372, -1057,
     455, 513, 497, 475, -1020, -1433, 123, 622, 439, 663, -488, -1533,
     -252, 750, 527, 787, 123, -1319, -589, 832, 769, 900, 718, -810,
     -789, 830, 1126, 1070, 1236, -77, -762, 750, 1530, 1351, 1661, 772,
     -453, 641, 1899, 1764, 2018, 1627, 141, 585, 2168, 2284, 2360, 2395,
     964, 672, 2308, 2849, 2745, 3028, 1917, 970, 2341, 3372, 3205, 3524,
     2882, 1507, 2327, 3773, 3737, 3921, 3750, 2253, 2352, 3997, 4293, 4273,
     4444, 3128, 2499, 4040, 4798, 4630, 4940, 4022, 2821, 3943, 5166, 5010,
     5258, 4820, 3320, 3786, 5329, 5396, 5452, 5431, 3950, 3663, 5263, 5729,
     5586, 5810, 4620, 3654, 4992, 5934, 5704, 5962, 5223, 3798, 4589, 5942,
     5818, 5938, 5663, 4086, 4153, 5713, 5901, 5809, 5880, 4459, 3787, 5256,
     5896, 5645, 5863, 4827, 3565, 4632, 5739, 5487, 5653, 5096, 3517, 3939,
     5381, 5340, 5323, 5194, 3618, 3293, 4816, 5171, 4958, 5093, 3801, 2796,
     4085, 4925, 4624, 4816, 3980, 2510, 3278, 4549, 4353, 4429, 4073, 2444,
     2509, 4018, 4137, 4016, 4032, 2558, 1895, 3349, 3931, 3661, 3854, 2771,
     1522, 2609, 3679, 3414, 3584, 2995, 1429, 1900, 3336, 3286, 3296, 3160,
     1595, 1339, 2891, 3246, 3074, 3232, 1953, 1024, 2379, 3233, 2979, 3224,
     2409, 1014, 1878, 3186, 3039, 3189, 2871, 1310, 1491, 3064, 3231, 3198,
     3272, 1858, 1318, 2865, 3498, 3317, 3590, 2563, 1430, 2635, 3764, 3581,
     3847, 3316, 1850, 2455, 3963, 3984, 4096, 4025, 2539, 2418, 4060, 4473,
     4398, 4630, 3412, 2605, 4065, 4970
  >>

RECURSIVE SumCodes(_)
SumCodes(name) == IF name = <<>> THEN 0 ELSE Head(name) + SumCodes(Tail(name))

\* Variant of BasePrice that does not reduce the code sum modulo 300.
BasePriceNoMod(name) == 200 + SumCodes(name)

BasePrice(name) == 200 + (SumCodes(name) % 300)

\* the point pushed for loop index i (i days before today)
MockPoint(basePrice, today, i) ==
    [purchase_price |-> basePrice * 100 + MockWave[i + 1],
     Date           |-> today - i,
     timestamp      |-> today - i]

\* Variant of MockSeries whose loop stops one day short (365 points).
MockSeriesShort(name, today) ==
    LET basePrice == BasePrice(name)
    IN  [k \in 1..MockDays |-> MockPoint(basePrice, today, MockDays - k)]

\* the loop: for (let i = 365; i >= 0; i--)
MockSeries(name, today) ==
    LET basePrice == BasePrice(name)
    IN  [k \in 1..(MockDays + 1) |-> MockPoint(basePrice, today, MockDays - (k - 1))]

\* data[idx]?.purchase_price || currentPrice, idx 0-based
PriceOr(data, idx, currentPrice) ==
    IF idx >= 0 /\ idx < Len(data) /\ data[idx + 1].purchase_price # 0
    THEN data[idx + 1].purchase_price
    ELSE currentPrice

\* { gold: Number(change.toFixed(2)), percent: Number(((change / base) * 100).toFixed(2)) }
Change(currentPrice, base) ==
    [gold    |-> currentPrice - base,
     percent |-> RoundDiv((currentPrice - base) * 10000, base)]

MockStats(data) ==
    LET n            == Len(data)
        currentPrice == data[n].purchase_price
    IN  [price     |-> currentPrice,
         per_day   |-> Change(currentPrice, PriceOr(data, n - 2, currentPrice)),
         per_week  |-> Change(currentPrice, PriceOr(data, n - 7, currentPrice)),
         per_month |-> Change(currentPrice, PriceOr(data, n - 30, currentPrice)),
         per_year  |-> Change(currentPrice, PriceOr(data, 0, currentPrice))]

\* the value generateMockData returns: { data, stats }
MockDataOf(name, today) ==
    LET data == MockSeries(name, today)
    IN  [data |-> data, stats |-> MockStats(data)]

(***************************************************************************)
(* The upstream payload and its normalisation in fetchItemStats             *)
(***************************************************************************)
\* new Date(item.Date).getTime()
ParseDate(d) == IF d = BadDate THEN NaN ELSE d

\* formattedDate of the map step: date.toLocaleDateString(), which for the Invalid
\* Date of an unparsable string is the text "Invalid Date" and does not throw
FormattedDate(d) == IF ParseDate(d) = NaN THEN <<"Invalid Date">> ELSE <<"date", d>>

\* formattedDate and timestamp of the catch branch of the map step
InvalidDateLabel == <<"Invalid date">>
InvalidDateTimestamp == 0

\* x || 0 for a timestamp: NaN and 0 are falsy
OrZero(x) == IF x = NaN THEN 0 ELSE x

\* the .map(...) step: the catch branch is not taken for a string Date, since
\* new Date of an unparsable string does not throw
MapItem(item) ==
    [purchase_price |-> item.purchase_price,
     Date           |-> item.Date,
     timestamp      |-> ParseDate(item.Date)]

\* .filter((item) => !isNaN(item.purchase_price))
ValidPrice(item) == item.purchase_price # NaN

\* the comparator: (a.timestamp || 0) - (b.timestamp || 0)
Compare(a, b) == OrZero(a.timestamp) - OrZero(b.timestamp)

\* insert x after the last element that does not compare greater (a stable sort)
RECURSIVE InsertSorted(_, _)
InsertSorted(s, x) ==
    IF s = <<>> THEN <<x>>
    ELSE IF Compare(s[Len(s)], x) <= 0 THEN Append(s, x)
    ELSE Append(InsertSorted(SubSeq(s, 1, Len(s) - 1), x), s[Len(s)])

RECURSIVE SortByTimestamp(_)
SortByTimestamp(s) ==
    IF s = <<>> THEN <<>>
    ELSE InsertSorted(SortByTimestamp(SubSeq(s, 1, Len(s) - 1)), s[Len(s)])

ProcessData(raw) ==
    SortByTimestamp(SelectSeq([k \in 1..Len(raw) |-> MapItem(raw[k])], ValidPrice))

\* v || 0 for a stats field (an absent field reads undefined)
FieldOrZero(v) == IF v = NaN THEN 0 ELSE v

SafeChange(c) == [gold |-> FieldOrZero(c.gold), percent |-> FieldOrZero(c.percent)]

safeStats(s) ==
    [price     |-> FieldOrZero(s.price),
     per_day   |-> SafeChange(s.per_day),
     per_week  |-> SafeChange(s.per_week),
     per_month |-> SafeChange(s.per_month),
     per_year  |-> SafeChange(s.per_year)]

(***************************************************************************)
(* optimizeDataForDisplay                                                   *)
(***************************************************************************)
\* Variant of SamplingRate that rounds the quotient down.
SamplingRateFloor(len, limit) == len \div limit

\* Math.ceil(data.length / dataPointLimit)
SamplingRate(len, limit) == CeilDiv(len, limit)

\* Variant of OptimizeIndices that does not push the last point.
OptimizeIndicesNoLast(len, limit) ==
    LET rate   == SamplingRate(len, limit)
        middle == IF len - rate > rate THEN CeilDiv(len - rate, rate) - 1 ELSE 0
    IN  <<0>> \o [k \in 1..middle |-> k * rate]

\* The 0-based indices pushed when len > limit: 0, the loop's
\* i = rate, 2 rate, ... while i < len - rate, and len - 1.
OptimizeIndices(len, limit) ==
    LET rate   == SamplingRate(len, limit)
        middle == IF len - rate > rate THEN CeilDiv(len - rate, rate) - 1 ELSE 0
    IN  <<0>> \o [k \in 1..middle |-> k * rate] \o <<len - 1>>

\* Variant of optimizeDataForDisplay that samples every series, short ones included.
optimizeDataForDisplayAlways(data, limit) ==
    IF Len(data) = 0 THEN <<>>
    ELSE LET idx == OptimizeIndices(Len(data), limit)
         IN  [k \in 1..Len(idx) |-> data[idx[k] + 1]]

optimizeDataForDisplay(data, limit) ==
    IF Len(data) = 0 THEN <<>>
    ELSE IF Len(data) <= limit THEN data
    ELSE LET idx == OptimizeIndices(Len(data), limit)
         IN  [k \in 1..Len(idx) |-> data[idx[k] + 1]]

(***************************************************************************)
(* filterDataByPeriod: the pair it stores with setFilteredData and          *)
(* setDisplayData                                                           *)
(***************************************************************************)
\* (item.timestamp || new Date(item.Date).getTime()) >= cutoffDate.getTime()
InWindow(item, cutoff) ==
    LET t == IF item.timestamp # NaN /\ item.timestamp # 0
             THEN item.timestamp ELSE ParseDate(item.Date)
    IN  t # NaN /\ t >= cutoff

WindowFilter(data, period, today) ==
    LET cutoff     == CutoffDate(period, today)
        Keep(item) == InWindow(item, cutoff)
    IN  SelectSeq(data, Keep)

\* Variant of filterDataByPeriod that keeps an empty window.
filterDataByPeriodNoFallback(data, period, today, limit) ==
    IF Len(data) = 0 THEN [filtered |-> <<>>, display |-> <<>>]
    ELSE IF period = "ALL" THEN [filtered |-> data, display |-> data]
    ELSE LET filtered == WindowFilter(data, period, today)
         IN  [filtered |-> filtered, display |-> optimizeDataForDisplay(filtered, limit)]

\* Variant of filterDataByPeriod that applies the one-year window to period ALL.
filterDataByPeriodAllWindowed(data, period, today, limit) ==
    IF Len(data) = 0 THEN [filtered |-> <<>>, display |-> <<>>]
    ELSE LET filtered  == WindowFilter(data, IF period = "ALL" THEN "1Y" ELSE period, today)
             finalData == IF Len(filtered) > 0 THEN filtered ELSE data
         IN  [filtered |-> finalData, display |-> optimizeDataForDisplay(finalData, limit)]

filterDataByPeriod(data, period, today, limit) ==
    IF Len(data) = 0 THEN [filtered |-> <<>>, display |-> <<>>]
    ELSE IF period = "ALL" THEN [filtered |-> data, display |-> data]
    ELSE LET filtered  == WindowFilter(data, period, today)
             finalData == IF Len(filtered) > 0 THEN filtered ELSE data
         IN  [filtered |-> finalData, display |-> optimizeDataForDisplay(finalData, limit)]

(***************************************************************************)
(* The zoom handlers' new zoomDomain, n = filteredData.length > 0           *)
(***************************************************************************)
ClampDomain(midPoint, halfNewRange, n) ==
    <<Max(0, midPoint - halfNewRange), Min(n - 1, midPoint + halfNewRange)>>

ZoomInDomain(zd, n) ==
    IF zd = Null THEN <<n \div 4, (3 * n) \div 4>>
    ELSE LET currentRange == zd[2] - zd[1]
             newRange     == Max(MinZoomRange, (3 * currentRange) \div 4)
             midPoint     == (zd[1] + zd[2]) \div 2
         IN  ClampDomain(midPoint, newRange \div 2, n)

\* Variant of ZoomOutDomain that keeps the current range instead of doubling it.
ZoomOutDomainSameRange(zd, n) ==
    LET currentRange == zd[2] - zd[1]
        newRange     == Min(n, currentRange)
        midPoint     == (zd[1] + zd[2]) \div 2
        newDomain    == ClampDomain(midPoint, newRange \div 2, n)
    IN  IF newDomain[1] <= ZoomResetMargin /\ newDomain[2] >= n - ZoomResetMargin
        THEN Null ELSE newDomain

ZoomOutDomain(zd, n) ==
    LET currentRange == zd[2] - zd[1]
        newRange     == Min(n, currentRange * 2)
        midPoint     == (zd[1] + zd[2]) \div 2
        newDomain    == ClampDomain(midPoint, newRange \div 2, n)
    IN  IF newDomain[1] <= ZoomResetMargin /\ newDomain[2] >= n - ZoomResetMargin
        THEN Null ELSE newDomain

\* Array.prototype.slice(start, end) (a negative index counts from the end)
JsSlice(s, start, end) ==
    LET from == IF start < 0 THEN Max(Len(s) + start, 0) ELSE Min(start, Len(s))
        to   == IF end < 0 THEN Max(Len(s) + end, 0) ELSE Min(end, Len(s))
    IN  SubSeq(s, from + 1, to)

\* chartData (useMemo)
ChartDataOf(zd, filtered, display, limit) ==
    IF zd = Null \/ Len(filtered) = 0 THEN display
    ELSE IF zd[2] - zd[1] < limit
         THEN JsSlice(filtered, zd[1], zd[2] + 1)
         ELSE optimizeDataForDisplay(JsSlice(filtered, zd[1], zd[2] + 1), limit)

chartData == ChartDataOf(zoomDomain, filteredData, displayData, dataPointLimit)

(***************************************************************************)
(* Inputs of the model                                                      *)
(***************************************************************************)
\* the item name "Sword of Embers"
Names == { <<83, 119, 111, 114, 100, 32, 111, 102, 32, 69, 109, 98, 101, 114, 115>> }

\* the clock values of a behaviour
ClockDays == Today0..(Today0 + MaxEvents)

\* generateMockData, tabulated once over the item names and the clock values
MockTable == [name \in Names |-> [today \in ClockDays |-> MockDataOf(name, today)]]

generateMockData(name, today) == MockTable[name][today]

\* a non-numeric price and a numeric one
RawPrices == {NaN, 12000}
\* an unparsable date, a day more than a year back, a day of the last week
RawDates == {BadDate, Today0 - 400, Today0 - 3}
RawItems == [purchase_price : RawPrices, Date : RawDates]
\* every payload of one point, and three of two points (in and out of order)
RawPayloads ==
    {<<item>> : item \in RawItems}
    \cup { <<[purchase_price |-> 12000, Date |-> Today0 - 3], [purchase_price |-> 12000, Date |-> Today0 - 400]>>,
           <<[purchase_price |-> 12000, Date |-> Today0 - 400], [purchase_price |-> 12000, Date |-> Today0 - 3]>>,
           <<[purchase_price |-> 12000, Date |-> Today0 - 3], [purchase_price |-> 12000, Date |-> BadDate]>> }

FullStats ==
    [price |-> 15050, per_day |-> [gold |-> 50, percent |-> 33],
     per_week |-> [gold |-> 0 - 100, percent |-> 0 - 66],
     per_month |-> [gold |-> 3050, percent |-> 2542],
     per_year |-> [gold |-> 5050, percent |-> 5050]]
\* stats with fields missing
PartialStats ==
    [price |-> NaN, per_day |-> [gold |-> 50, percent |-> NaN],
     per_week |-> [gold |-> NaN, percent |-> NaN],
     per_month |-> [gold |-> NaN, percent |-> NaN],
     per_year |-> [gold |-> NaN, percent |-> 5050]]
RawStats == {FullStats, PartialStats}

\* err.message of a rejected fetch: a network failure, the 15 s abort, an error without a message
RejectMessages == { <<"Failed to fetch">>, <<"">> }
\* response.status of a non-2xx response, and its body (response.text(), or "Unknown error" when reading fails)
ErrorStatuses == {"500"}
ErrorTexts == {"", "Unknown error"}

(***************************************************************************)
(* The state after construction: the useState initial values                *)
(***************************************************************************)
\* nothing has been exported
ExportInit == download = Null

\* generateMockData has not been called
MockInit == mockBasePrice = Null

\* useState of serverStats: every figure is 0
ZeroServerStats ==
    [cpu_percent |-> 0,
     memory |-> [total_gb |-> 0, used_gb |-> 0, available_gb |-> 0, percent |-> 0],
     disk   |-> [total_gb |-> 0, used_gb |-> 0, free_gb |-> 0, percent |-> 0]]

\* useState of counts, and the default counts of fetchEntityCounts' catch block
ZeroCounts ==
    [items |-> 0, users |-> 0, weapons |-> 0, categories |-> 0, collections |-> 0,
     rarities |-> 0, types |-> 0]

\* the dashboard page after construction
DashboardInit ==
    /\ serverStats = ZeroServerStats
    /\ counts = ZeroCounts
    /\ dashboardLoading = TRUE
    /\ dashboardError = Null
    /\ dashboardPc = "unmounted"
    /\ serverStatsReply = Null
    /\ entityReplies = Null

\* no /api/types handler is running
ProxyWaitInit ==
    /\ proxyAwait = Null
    /\ abortTimer = FALSE

\* no request has reached the /api/types route
ProxyInit ==
    /\ upstreamReply = Null
    /\ proxyResponse = Null

\* useState(null) of longHoverTimeout and longHoverInfo; no timer is pending
HoverInit ==
    /\ longHoverTimeout = Null
    /\ renderedTimeout = Null
    /\ hoverTimers = {}
    /\ longHoverInfo = Null
    /\ nextTimerId = 1
    /\ unmounted = FALSE

Init ==
    /\ itemName \in Names
    /\ mounted = FALSE
    /\ isLoading = TRUE
    /\ isRefreshing = FALSE
    /\ error = Null
    /\ priceData = <<>>
    /\ filteredData = <<>>
    /\ displayData = <<>>
    /\ stats = Null
    /\ selectedPeriod = "1M"
    /\ zoomDomain = Null
    /\ dataPointLimit = DefaultDataPointLimit
    /\ showNoDataMessage = FALSE
    /\ inflight = EmptyBag
    /\ now = Today0
    /\ lastStep = "init"
    /\ filterNow = Today0
    /\ zoomBefore = Null
    /\ roundTrip = Null
    /\ events = 0
    /\ fetched = FALSE
    /\ HoverInit
    /\ ProxyInit
    /\ ProxyWaitInit
    /\ DashboardInit
    /\ MockInit
    /\ ExportInit
    /\ upstreamStats = Null

\* a user event or a clock tick, within the bound
Event ==
    /\ events < MaxEvents
    /\ events' = events + 1

\* every handler of the view other than the zoom and hover handlers records itself
\* like this (and touches neither the hover state nor the /api/types route)
Record(step) ==
    /\ lastStep' = step
    /\ zoomBefore' = zoomDomain
    /\ roundTrip' = Null
    /\ UNCHANGED <<hoverVars, proxyVars, exportVars, mockVars, dashboardVars, proxyWaitVars>>

(***************************************************************************)
(* fetchItemStats                                                           *)
(***************************************************************************)
\* up to the await of fetch(): the closure keeps the selectedPeriod of its render
StartFetch ==
    /\ isLoading' = TRUE
    /\ error' = Null
    /\ showNoDataMessage' = FALSE
    /\ inflight' = inflight (+) SetToBag({selectedPeriod})

\* the mount effect: fetchItemStats(false)
Mount ==
    /\ ~mounted
    /\ mounted' = TRUE
    /\ StartFetch
    /\ Record("mount")
    /\ UNCHANGED <<events, fetched, upstreamStats>>
    /\ UNCHANGED <<itemName, isRefreshing, priceData, filteredData, displayData, stats,
                   selectedPeriod, zoomDomain, dataPointLimit, now, filterNow>>

\* the Refresh button is enabled, or the Try Again button is shown
CanRefresh == ~isRefreshing \/ (~isLoading /\ Len(filteredData) = 0)

handleRefresh ==
    /\ mounted
    /\ CanRefresh
    /\ Event
    /\ isRefreshing' = TRUE
    /\ StartFetch
    /\ Record("handleRefresh")
    /\ UNCHANGED <<upstreamStats, fetched, itemName, mounted, priceData, filteredData, displayData, stats,
                   selectedPeriod, zoomDomain, dataPointLimit, now, filterNow>>

\* Variant of PeriodEffect in which the effect does not run.
PeriodEffectSkipped(data, period, cur) == cur

\* the effect on [selectedPeriod, priceData, filterDataByPeriod], run after the render
\* that follows a change of priceData or selectedPeriod; cur is what the handler stored
PeriodEffect(data, period, cur) ==
    IF Len(data) > 0 THEN filterDataByPeriod(data, period, now, dataPointLimit) ELSE cur

\* setPriceData(data); filterDataByPeriod(data, selectedPeriod of the closure);
\* then the effect with the selectedPeriod of the state
StoreSeries(data, captured) ==
    LET stored == PeriodEffect(data, selectedPeriod,
                               filterDataByPeriod(data, captured, now, dataPointLimit))
    IN  /\ priceData' = data
        /\ filteredData' = stored.filtered
        /\ displayData' = stored.display
        /\ filterNow' = now

\* the finally block, and the fetch is no longer in flight
Finally(captured) ==
    /\ isLoading' = FALSE
    /\ isRefreshing' = FALSE
    /\ inflight' = inflight (-) SetToBag({captured})
    /\ fetched' = TRUE
    /\ UNCHANGED events

\* err.message || "Failed to load item statistics"
ErrorMessage(message) == IF message = <<"">> THEN <<"Failed to load item statistics">> ELSE message

\* Variant of CatchError that reports the error and stores no synthetic series.
CatchErrorNoMock(captured, message) ==
    /\ error' = ErrorMessage(message)
    /\ Finally(captured)
    /\ UNCHANGED upstreamStats
    /\ UNCHANGED <<itemName, mounted, priceData, filteredData, displayData, stats, filterNow,
                   selectedPeriod, zoomDomain, dataPointLimit, showNoDataMessage, now>>

\* the catch block and the finally block
CatchError(captured, message) ==
    LET mockData == generateMockData(itemName, now)
    IN  /\ error' = ErrorMessage(message)
        /\ StoreSeries(mockData.data, captured)
        /\ stats' = <<mockData.stats>>
        /\ upstreamStats' = Null
        /\ Finally(captured)
        /\ UNCHANGED <<itemName, mounted, selectedPeriod, zoomDomain, dataPointLimit,
                       showNoDataMessage, now>>

\* the mock fallback of the two "no data" branches
NoDataFallback(captured) ==
    LET mockData == generateMockData(itemName, now)
    IN  /\ showNoDataMessage' = TRUE
        /\ StoreSeries(mockData.data, captured)
        /\ stats' = <<mockData.stats>>
        /\ upstreamStats' = Null
        /\ Finally(captured)
        /\ UNCHANGED <<itemName, mounted, selectedPeriod, zoomDomain, dataPointLimit,
                       error, now>>

\* fetch() rejects: the network fails, or the 15 s timer aborts the request
FetchRejected ==
    \E captured \in BagToSet(inflight), message \in RejectMessages :
        /\ CatchError(captured, message)
        /\ Record("fetchRejected")

\* !response.ok
FetchStatusError ==
    \E captured \in BagToSet(inflight), status \in ErrorStatuses, errorText \in ErrorTexts :
        /\ CatchError(captured,
                      IF errorText = "" THEN <<"API Error: ", status>>
                      ELSE <<"API Error: ", status, " - ", errorText>>)
        /\ Record("fetchStatusError")

\* response.text() rejects: the connection fails while the body of a 2xx response
\* is read; the inner catch rethrows it as a parse failure
FetchBodyReadError ==
    \E captured \in BagToSet(inflight) :
        /\ CatchError(captured, <<"Failed to parse API response">>)
        /\ Record("fetchBodyReadError")

\* the body is empty or is not JSON
FetchParseError ==
    \E captured \in BagToSet(inflight) :
        /\ CatchError(captured, <<"Failed to parse API response">>)
        /\ Record("fetchParseError")

\* !data || !data.data || !Array.isArray(data.data)
FetchShapeError ==
    \E captured \in BagToSet(inflight) :
        /\ CatchError(captured, <<"Invalid data structure received from API">>)
        /\ Record("fetchShapeError")

\* data.data.length === 0
FetchEmpty ==
    \E captured \in BagToSet(inflight) :
        /\ NoDataFallback(captured)
        /\ Record("fetchEmpty")

\* a payload with points, all of them dropped: processedData.length === 0
FetchInvalid ==
    \E captured \in BagToSet(inflight), raw \in RawPayloads :
        /\ Len(ProcessData(raw)) = 0
        /\ NoDataFallback(captured)
        /\ Record("fetchInvalid")

\* a payload with points of which some are kept
FetchData ==
    \E captured \in BagToSet(inflight), raw \in RawPayloads, rawStats \in RawStats :
        /\ Len(ProcessData(raw)) > 0
        /\ StoreSeries(ProcessData(raw), captured)
        /\ stats' = <<safeStats(rawStats)>>
        /\ upstreamStats' = <<rawStats>>
        /\ Finally(captured)
        /\ Record("fetchData")
        /\ UNCHANGED <<itemName, mounted, selectedPeriod, zoomDomain, dataPointLimit,
                       error, showNoDataMessage, now>>

(***************************************************************************)
(* The period and zoom handlers                                             *)
(***************************************************************************)
\* Variant of handlePeriodChange that leaves the zoom range as it is.
handlePeriodChangeKeepZoom ==
    \E period \in Periods :
        /\ mounted
        /\ Event
        /\ selectedPeriod' = period
        /\ zoomDomain' = zoomDomain
        /\ IF period # selectedPeriod
           THEN LET stored == PeriodEffect(priceData, period,
                                           [filtered |-> filteredData, display |-> displayData])
                IN  /\ filteredData' = stored.filtered
                    /\ displayData' = stored.display
                    /\ filterNow' = IF Len(priceData) > 0 THEN now ELSE filterNow
           ELSE UNCHANGED <<filteredData, displayData, filterNow>>
        /\ Record("handlePeriodChange")
        /\ UNCHANGED <<upstreamStats, fetched, itemName, mounted, isLoading, isRefreshing, error, priceData, stats,
                       dataPointLimit, showNoDataMessage, inflight, now>>

handlePeriodChange ==
    \E period \in Periods :
        /\ mounted
        /\ Event
        /\ selectedPeriod' = period
        /\ zoomDomain' = Null
        /\ IF period # selectedPeriod
           THEN LET stored == PeriodEffect(priceData, period,
                                           [filtered |-> filteredData, display |-> displayData])
                IN  /\ filteredData' = stored.filtered
                    /\ displayData' = stored.display
                    /\ filterNow' = IF Len(priceData) > 0 THEN now ELSE filterNow
           ELSE UNCHANGED <<filteredData, displayData, filterNow>>
        /\ Record("handlePeriodChange")
        /\ UNCHANGED <<upstreamStats, fetched, itemName, mounted, isLoading, isRefreshing, error, priceData, stats,
                       dataPointLimit, showNoDataMessage, inflight, now>>

\* the zoom buttons are rendered
ZoomShown == mounted /\ ~isLoading /\ Len(filteredData) > 0

handleZoomIn ==
    /\ ZoomShown
    /\ Event
    /\ zoomDomain' = ZoomInDomain(zoomDomain, Len(filteredData))
    /\ lastStep' = "handleZoomIn"
    /\ zoomBefore' = zoomDomain
    /\ roundTrip' = IF zoomDomain = Null THEN Null ELSE <<"in", zoomDomain>>
    /\ UNCHANGED <<hoverVars, proxyVars, exportVars, mockVars, dashboardVars, proxyWaitVars>>
    /\ UNCHANGED <<upstreamStats, fetched, itemName, mounted, isLoading, isRefreshing, error, priceData, filteredData,
                   displayData, stats, selectedPeriod, dataPointLimit, showNoDataMessage,
                   inflight, now, filterNow>>

handleZoomOut ==
    /\ ZoomShown
    /\ Event
    /\ zoomDomain # Null
    /\ zoomDomain' = ZoomOutDomain(zoomDomain, Len(filteredData))
    /\ lastStep' = "handleZoomOut"
    /\ zoomBefore' = zoomDomain
    /\ roundTrip' = IF roundTrip # Null /\ roundTrip[1] = "in" THEN <<"out", roundTrip[2]>> ELSE Null
    /\ UNCHANGED <<hoverVars, proxyVars, exportVars, mockVars, dashboardVars, proxyWaitVars>>
    /\ UNCHANGED <<upstreamStats, fetched, itemName, mounted, isLoading, isRefreshing, error, priceData, filteredData,
                   displayData, stats, selectedPeriod, dataPointLimit, showNoDataMessage,
                   inflight, now, filterNow>>

resetZoom ==
    /\ ZoomShown
    /\ Event
    /\ zoomDomain # Null
    /\ zoomDomain' = Null
    /\ Record("resetZoom")
    /\ UNCHANGED <<upstreamStats, fetched, itemName, mounted, isLoading, isRefreshing, error, priceData, filteredData,
                   displayData, stats, selectedPeriod, dataPointLimit, showNoDataMessage,
                   inflight, now, filterNow>>

\* a day passes
Tick ==
    /\ Event
    /\ now' = now + 1
    /\ UNCHANGED <<hoverVars, proxyVars, exportVars, mockVars, dashboardVars, proxyWaitVars>>
    /\ UNCHANGED <<upstreamStats, fetched, itemName, mounted, isLoading, isRefreshing, error, priceData, filteredData,
                   displayData, stats, selectedPeriod, zoomDomain, dataPointLimit,
                   showNoDataMessage, inflight, lastStep, filterNow, zoomBefore, roundTrip>>

Next ==
    \/ Mount
    \/ handleRefresh
    \/ FetchRejected
    \/ FetchStatusError
    \/ FetchBodyReadError
    \/ FetchParseError
    \/ FetchShapeError
    \/ FetchEmpty
    \/ FetchInvalid
    \/ FetchData
    \/ handlePeriodChange
    \/ handleZoomIn
    \/ handleZoomOut
    \/ resetZoom
    \/ Tick

Spec == Init /\ [][Next]_vars

(***************************************************************************)
(* optimizeDataForDisplay on its own: every series of up to MaxLen points   *)
(* under every display limit up to MaxLimit                                 *)
(***************************************************************************)
SamplePrices == {12000, 15050}

\* the series of n points in which point k (1-based) is dated day k, so that a
\* point's 0-based index is its timestamp less one
IndexedSeries(n) ==
    { [k \in 1..n |-> [purchase_price |-> p[k], Date |-> k, timestamp |-> k]] :
        p \in [1..n -> SamplePrices] }

SeriesInputs == UNION { IndexedSeries(n) : n \in 0..MaxLen }

InitOpt ==
    /\ itemName \in Names
    /\ mounted = TRUE
    /\ isLoading = FALSE
    /\ isRefreshing = FALSE
    /\ error = Null
    /\ filteredData \in SeriesInputs
    /\ priceData = filteredData
    /\ displayData = <<>>
    /\ stats = Null
    /\ selectedPeriod = "ALL"
    /\ zoomDomain = Null
    /\ dataPointLimit \in 1..MaxLimit
    /\ showNoDataMessage = FALSE
    /\ inflight = EmptyBag
    /\ now = Today0
    /\ lastStep = "init"
    /\ filterNow = Today0
    /\ zoomBefore = Null
    /\ roundTrip = Null
    /\ events = 0
    /\ fetched = FALSE
    /\ HoverInit
    /\ ProxyInit
    /\ ProxyWaitInit
    /\ DashboardInit
    /\ MockInit
    /\ ExportInit
    /\ upstreamStats = Null

\* setDisplayData(optimizeDataForDisplay(filteredData))
OptimizeStep ==
    /\ lastStep = "init"
    /\ displayData' = optimizeDataForDisplay(filteredData, dataPointLimit)
    /\ lastStep' = "optimizeDataForDisplay"
    /\ UNCHANGED <<hoverVars, proxyVars, exportVars, mockVars, dashboardVars, proxyWaitVars>>
    /\ UNCHANGED <<itemName, mounted, isLoading, isRefreshing, error, priceData, filteredData,
                   stats, selectedPeriod, zoomDomain, dataPointLimit, showNoDataMessage,
                   inflight, now, filterNow, zoomBefore, roundTrip, events, fetched, upstreamStats>>

NextOpt == OptimizeStep

SpecOpt == InitOpt /\ [][NextOpt]_vars

(***************************************************************************)
(* Properties                                                               *)
(***************************************************************************)

\* C1: at most one price fetch is in flight at any time (a fetch started while
\* an earlier one has not completed replaces it).
C1_AtMostOneInFlight == BagCardinality(inflight) <= 1

\* C2: on every error path of fetchItemStats (rejected request, non-2xx status,
\* unparsable body, invalid shape) the fetch finishes with a non-null error and with
\* priceData replaced by the synthetic series; and once any fetch has completed,
\* priceData and filteredData are non-empty.
C2_ErrorPathsStoreSyntheticSeries ==
    /\ lastStep \in {"fetchRejected", "fetchStatusError", "fetchBodyReadError",
                   "fetchParseError", "fetchShapeError"}
         => /\ error # Null
            /\ priceData = generateMockData(itemName, filterNow).data
    /\ fetched => Len(priceData) > 0 /\ Len(filteredData) > 0

\* C2 witness: an error path has just completed.
C2_Witness ==
    /\ lastStep \in {"fetchRejected", "fetchStatusError", "fetchBodyReadError",
                   "fetchParseError", "fetchShapeError"}
    /\ fetched
    /\ error # Null
    /\ Len(priceData) = MockDays + 1

\* C3: after a response whose data array is empty the fetch is in a non-error
\* terminal state: error is null, showNoDataMessage is true, priceData and stats are
\* the synthetic fallback, isLoading and isRefreshing are false.
C3_EmptyResultIsNotAnError ==
    lastStep = "fetchEmpty"
      => /\ error = Null
         /\ showNoDataMessage
         /\ priceData = generateMockData(itemName, filterNow).data
         /\ stats = <<generateMockData(itemName, filterNow).stats>>
         /\ ~isLoading
         /\ ~isRefreshing

\* C4 as stated: after a request that fails at the network level or times out,
\* priceData is a 366-point synthetic series, showNoDataMessage is true and stats
\* are the stats of that series.
C4_RejectedSetsNoDataMessage ==
    lastStep = "fetchRejected"
      => /\ Len(priceData) = MockDays + 1
         /\ showNoDataMessage
         /\ stats = <<MockStats(priceData)>>

\* C4 amended: the step that completes a rejected request stores a 366-point
\* synthetic series and the stats computed from it, sets error to a non-null
\* message, and leaves showNoDataMessage as it was.
C4_RejectedStoresSyntheticSeries ==
    [][ (lastStep' = "fetchRejected" /\ inflight' # inflight)
          => /\ Len(priceData') = MockDays + 1
             /\ priceData' = generateMockData(itemName, now).data
             /\ stats' = <<MockStats(priceData')>>
             /\ error' # Null
             /\ showNoDataMessage' = showNoDataMessage ]_vars

\* C4 witness: a rejected request has completed with the synthetic series stored and
\* showNoDataMessage false.
C4_Witness ==
    /\ lastStep = "fetchRejected"
    /\ Len(priceData) = MockDays + 1
    /\ stats = <<MockStats(priceData)>>
    /\ error # Null
    /\ ~showNoDataMessage

\* C5 as stated: filteredData, displayData and chartData are the window of the
\* current priceData for the selected period, whatever the time at which the filter
\* last ran (here: computed at the present clock).
C5_WindowIndependentOfFilterTime ==
    LET w == filterDataByPeriod(priceData, selectedPeriod, now, dataPointLimit)
    IN  /\ filteredData = w.filtered
        /\ displayData = w.display
        /\ chartData = ChartDataOf(zoomDomain, w.filtered, w.display, dataPointLimit)

\* C5 amended: filteredData, displayData and chartData are a function of priceData,
\* selectedPeriod, zoomDomain, dataPointLimit and the clock at the time the filter
\* last ran; the period captured by a fetch in flight does not matter.
C5_WindowOfSelectedPeriodAtFilterTime ==
    LET w == filterDataByPeriod(priceData, selectedPeriod, filterNow, dataPointLimit)
    IN  /\ filteredData = w.filtered
        /\ displayData = w.display
        /\ chartData = ChartDataOf(zoomDomain, w.filtered, w.display, dataPointLimit)

\* C5 witness: a fetch started under another period has completed, a day has passed
\* since the filter ran, and the window at the present clock differs from the one shown.
C5_Witness ==
    /\ fetched
    /\ selectedPeriod = "1W"
    /\ now # filterNow
    /\ filteredData = filterDataByPeriod(priceData, selectedPeriod, filterNow, dataPointLimit).filtered
    /\ filteredData # filterDataByPeriod(priceData, selectedPeriod, now, dataPointLimit).filtered

\* C6: in the state immediately after handlePeriodChange, zoomDomain is null,
\* whatever zoom was active before.
C6_PeriodChangeResetsZoom == lastStep = "handlePeriodChange" => zoomDomain = Null

\* C6 witness: handlePeriodChange has run with a zoom range active.
C6_Witness ==
    /\ lastStep = "handlePeriodChange"
    /\ zoomBefore # Null
    /\ zoomDomain = Null

\* C7 as stated: handleZoomIn followed immediately by handleZoomOut on an active
\* range [a,b] gives, when the zoom is not cleared, a range within one index of
\* [a,b] at both ends.
C7_ZoomRoundTripWithinOne ==
    (roundTrip # Null /\ roundTrip[1] = "out" /\ zoomDomain # Null
       /\ 0 <= roundTrip[2][1] /\ roundTrip[2][1] <= roundTrip[2][2]
       /\ roundTrip[2][2] <= Len(filteredData) - 1)
      => /\ zoomDomain[1] - roundTrip[2][1] \in (0 - 1)..1
         /\ zoomDomain[2] - roundTrip[2][2] \in (0 - 1)..1

\* C7 amended: handleZoomIn followed immediately by handleZoomOut on an active
\* range [a,b] of the filtered series gives, when the zoom is not cleared, a range
\* of the series that contains [a,b].
C7_ZoomRoundTripContainsOriginal ==
    (roundTrip # Null /\ roundTrip[1] = "out" /\ zoomDomain # Null
       /\ 0 <= roundTrip[2][1] /\ roundTrip[2][1] <= roundTrip[2][2]
       /\ roundTrip[2][2] <= Len(filteredData) - 1)
      => /\ zoomDomain[1] <= roundTrip[2][1]
         /\ zoomDomain[2] >= roundTrip[2][2]
         /\ zoomDomain[1] >= 0
         /\ zoomDomain[2] <= Len(filteredData) - 1

\* C7 witness: a zoom-in and the zoom-out after it have run on an active range and
\* the zoom was not cleared.
C7_Witness ==
    /\ lastStep = "handleZoomOut"
    /\ roundTrip # Null
    /\ roundTrip[1] = "out"
    /\ zoomDomain # Null
    /\ 0 <= roundTrip[2][1]
    /\ roundTrip[2][1] <= roundTrip[2][2]
    /\ roundTrip[2][2] <= Len(filteredData) - 1
    /\ zoomDomain # roundTrip[2]

\* C8: for a non-empty priceData and a period other than ALL, if no point is at
\* or after the cutoff then filteredData is the whole of priceData; filteredData is
\* never empty when priceData is non-empty.
C8_EmptyWindowFallsBackToWholeSeries ==
    /\ (Len(priceData) > 0 /\ selectedPeriod # "ALL"
          /\ Len(WindowFilter(priceData, selectedPeriod, filterNow)) = 0)
         => filteredData = priceData
    /\ Len(priceData) > 0 => Len(filteredData) > 0

\* C8 witness: the stored series has no point inside the window of the selected
\* period and the whole series is shown.
C8_Witness ==
    /\ lastStep = "fetchData"
    /\ selectedPeriod # "ALL"
    /\ Len(priceData) > 0
    /\ Len(WindowFilter(priceData, selectedPeriod, filterNow)) = 0
    /\ filteredData = priceData

\* C9: for a series longer than the display limit, the output of
\* optimizeDataForDisplay begins with the first point of the series and ends with
\* its last point.
C9_FirstAndLastKept ==
    (lastStep = "optimizeDataForDisplay" /\ dataPointLimit < Len(filteredData))
      => /\ Len(displayData) >= 1
         /\ displayData[1] = filteredData[1]
         /\ displayData[Len(displayData)] = filteredData[Len(filteredData)]

\* C9 witness: a series longer than the limit has been down-sampled to fewer points.
C9_Witness ==
    /\ lastStep = "optimizeDataForDisplay"
    /\ dataPointLimit < Len(filteredData)
    /\ Len(displayData) < Len(filteredData)
    /\ Len(displayData) > 2

\* C10 as stated: for len(S) > L >= 1 the output of optimizeDataForDisplay has at
\* most L points.
C10_AtMostLimitPoints ==
    (lastStep = "optimizeDataForDisplay" /\ Len(filteredData) > dataPointLimit)
      => Len(displayData) <= dataPointLimit

\* C10 amended: for len(S) > L >= 1, with stride = ceil(len(S)/L), the output of
\* optimizeDataForDisplay is a strictly index-increasing selection of S made of the
\* first point, the multiples of stride below len(S) - stride, and the last point;
\* it has at most max(L, 2) points.
C10_StrideSelection ==
    (lastStep = "optimizeDataForDisplay" /\ Len(filteredData) > dataPointLimit)
      => LET len      == Len(filteredData)
             stride   == (len + dataPointLimit - 1) \div dataPointLimit
             out      == displayData
             Index(k) == out[k].timestamp - 1
         IN  /\ Len(out) >= 2
             /\ Len(out) <= Max(dataPointLimit, 2)
             /\ \A k \in 1..Len(out) : out[k] = filteredData[Index(k) + 1]
             /\ \A k \in 1..(Len(out) - 1) : Index(k) < Index(k + 1)
             /\ Index(1) = 0
             /\ Index(Len(out)) = len - 1
             /\ \A k \in 2..(Len(out) - 1) :
                    Index(k) % stride = 0 /\ Index(k) < len - stride
             /\ \A m \in 1..len :
                    m * stride < len - stride => \E k \in 2..(Len(out) - 1) : Index(k) = m * stride

\* C10 witness: a series longer than the limit has been down-sampled with a stride
\* above one to its first point, a multiple of the stride and its last point.
C10_Witness ==
    /\ lastStep = "optimizeDataForDisplay"
    /\ Len(filteredData) > dataPointLimit
    /\ dataPointLimit > 1
    /\ Len(displayData) = 3
    /\ displayData[2].timestamp - 1 = (Len(filteredData) + dataPointLimit - 1) \div dataPointLimit

(***************************************************************************)
(* filterDataByPeriod on its own: every dated series of up to MaxLen points *)
(* under every period and every display limit up to MaxLimit                *)
(***************************************************************************)
\* days between two consecutive points of a dated series
DaySpacing == 5

\* the series of n points, DaySpacing days apart, the last one dated today
DatedSeries(n) ==
    { [k \in 1..n |-> [purchase_price |-> p[k],
                       Date           |-> Today0 - DaySpacing * (n - k),
                       timestamp      |-> Today0 - DaySpacing * (n - k)]] :
        p \in [1..n -> SamplePrices] }

\* the dated series, and the processed upstream payloads (unparsable dates and
\* points more than a year old among them)
FilterInputs ==
    UNION { DatedSeries(n) : n \in 0..MaxLen } \cup { ProcessData(raw) : raw \in RawPayloads }

InitFilter ==
    /\ itemName \in Names
    /\ mounted = TRUE
    /\ isLoading = FALSE
    /\ isRefreshing = FALSE
    /\ error = Null
    /\ priceData \in FilterInputs
    /\ filteredData = <<>>
    /\ displayData = <<>>
    /\ stats = Null
    /\ selectedPeriod \in Periods
    /\ zoomDomain = Null
    /\ dataPointLimit \in 1..MaxLimit
    /\ showNoDataMessage = FALSE
    /\ inflight = EmptyBag
    /\ now = Today0
    /\ lastStep = "init"
    /\ filterNow = Today0
    /\ zoomBefore = Null
    /\ roundTrip = Null
    /\ events = 0
    /\ fetched = FALSE
    /\ HoverInit
    /\ ProxyInit
    /\ ProxyWaitInit
    /\ DashboardInit
    /\ MockInit
    /\ ExportInit
    /\ upstreamStats = Null

\* filterDataByPeriod(priceData, selectedPeriod)
FilterStep ==
    /\ lastStep = "init"
    /\ LET stored == filterDataByPeriod(priceData, selectedPeriod, now, dataPointLimit)
       IN  /\ filteredData' = stored.filtered
           /\ displayData' = stored.display
    /\ filterNow' = now
    /\ lastStep' = "filterDataByPeriod"
    /\ UNCHANGED <<hoverVars, proxyVars, exportVars, mockVars, dashboardVars, proxyWaitVars>>
    /\ UNCHANGED <<itemName, mounted, isLoading, isRefreshing, error, priceData,
                   stats, selectedPeriod, zoomDomain, dataPointLimit, showNoDataMessage,
                   inflight, now, zoomBefore, roundTrip, events, fetched, upstreamStats>>

NextFilter == FilterStep

SpecFilter == InitFilter /\ [][NextFilter]_vars

\* C11: with no zoom active the chart is given the down-sampled filtered series for
\* every period, ALL included: when the filtered count exceeds the display limit the
\* displayed set is the stride sample of the filtered series.
C11_UnzoomedChartIsDownSampled ==
    (lastStep = "filterDataByPeriod" /\ zoomDomain = Null
       /\ Len(filteredData) > dataPointLimit)
      => chartData = optimizeDataForDisplay(filteredData, dataPointLimit)

\* C12: for a series no longer than the display limit, optimizeDataForDisplay
\* returns the series unchanged (same points, same order).
C12_ShortSeriesUnchanged ==
    (lastStep = "optimizeDataForDisplay" /\ Len(filteredData) <= dataPointLimit)
      => displayData = filteredData

\* C12 witness: a non-empty series no longer than the limit has been passed through.
C12_Witness ==
    /\ lastStep = "optimizeDataForDisplay"
    /\ Len(filteredData) > 1
    /\ Len(filteredData) <= dataPointLimit
    /\ displayData = filteredData

\* C13: when a zoom range [start,end] is active and end - start is below the display
\* limit, the chart data is exactly the points filteredData[start..end], end - start + 1
\* of them.
C13_ZoomedChartIsExactSlice ==
    (zoomDomain # Null /\ Len(filteredData) > 0
       /\ zoomDomain[2] - zoomDomain[1] < dataPointLimit)
      => /\ Len(chartData) = zoomDomain[2] - zoomDomain[1] + 1
         /\ \A k \in 1..Len(chartData) : chartData[k] = filteredData[zoomDomain[1] + k]

\* C14: every upstream point whose price fails the numeric validation is dropped
\* during normalisation, and a fetch whose points are all dropped takes the
\* empty-fallback path: showNoDataMessage is true, error is null, priceData and stats
\* are the synthetic fallback.
C14_AllInvalidTakesEmptyFallback ==
    /\ \A k \in 1..Len(priceData) : priceData[k].purchase_price # NaN
    /\ lastStep = "fetchInvalid"
         => /\ showNoDataMessage
            /\ error = Null
            /\ priceData = generateMockData(itemName, filterNow).data
            /\ stats = <<generateMockData(itemName, filterNow).stats>>

\* C15: a raw point whose date cannot be parsed and whose price is valid is kept in
\* the normalised series with the sentinel invalid-date label and timestamp exactly 0.
C15_UnparsableDateGetsSentinel ==
    \A k \in 1..Len(priceData) :
        priceData[k].Date = BadDate
          => /\ priceData[k].timestamp = InvalidDateTimestamp
             /\ FormattedDate(priceData[k].Date) = InvalidDateLabel

(***************************************************************************)
(* safeStats on its own: every upstream stats object whose fields are       *)
(* numbers, absent or malformed                                             *)
(***************************************************************************)
\* an upstream stats field: absent (or null), malformed, zero, a number
RawFields == {NaN, Malformed, 0, 15050}
\* an upstream change object (an absent one reads as both fields absent)
RawChanges == [gold : {NaN, Malformed, 50}, percent : {NaN, 33}]
StatsInputs ==
    [price : RawFields, per_day : RawChanges, per_week : RawChanges,
     per_month : RawChanges, per_year : RawChanges]

InitStats ==
    /\ itemName \in Names
    /\ mounted = TRUE
    /\ isLoading = TRUE
    /\ isRefreshing = FALSE
    /\ error = Null
    /\ priceData = <<>>
    /\ filteredData = <<>>
    /\ displayData = <<>>
    /\ stats = Null
    /\ selectedPeriod = "1M"
    /\ zoomDomain = Null
    /\ dataPointLimit = DefaultDataPointLimit
    /\ showNoDataMessage = FALSE
    /\ inflight = EmptyBag
    /\ now = Today0
    /\ lastStep = "init"
    /\ filterNow = Today0
    /\ zoomBefore = Null
    /\ roundTrip = Null
    /\ events = 0
    /\ fetched = FALSE
    /\ HoverInit
    /\ ProxyInit
    /\ ProxyWaitInit
    /\ DashboardInit
    /\ MockInit
    /\ ExportInit
    /\ \E s \in StatsInputs : upstreamStats = <<s>>

\* setStats(safeStats)
SafeStatsStep ==
    /\ lastStep = "init"
    /\ stats' = <<safeStats(upstreamStats[1])>>
    /\ lastStep' = "safeStats"
    /\ UNCHANGED <<hoverVars, proxyVars, exportVars, mockVars, dashboardVars, proxyWaitVars>>
    /\ UNCHANGED <<itemName, mounted, isLoading, isRefreshing, error, priceData, filteredData,
                   displayData, selectedPeriod, zoomDomain, dataPointLimit, showNoDataMessage,
                   inflight, now, filterNow, zoomBefore, roundTrip, events, fetched,
                   upstreamStats>>

NextStats == SafeStatsStep

SpecStats == InitStats /\ [][NextStats]_vars

\* the stored field is a number, and is 0 when the upstream field is not a number
FieldDefaulted(stored, raw) == IsNumber(stored) /\ (~IsNumber(raw) => stored = 0)

ChangeDefaulted(stored, raw) ==
    /\ FieldDefaulted(stored.gold, raw.gold)
    /\ FieldDefaulted(stored.percent, raw.percent)

\* C16: after a fetch that stores upstream stats, every numeric field of stats
\* (price, and gold and percent of per_day, per_week, per_month, per_year) is a
\* number, and is 0 whenever the upstream field is absent or malformed.
C16_StatsFieldsAreNumbers ==
    (lastStep \in {"safeStats", "fetchData"} /\ upstreamStats # Null /\ stats # Null)
      => /\ FieldDefaulted(stats[1].price, upstreamStats[1].price)
         /\ ChangeDefaulted(stats[1].per_day, upstreamStats[1].per_day)
         /\ ChangeDefaulted(stats[1].per_week, upstreamStats[1].per_week)
         /\ ChangeDefaulted(stats[1].per_month, upstreamStats[1].per_month)
         /\ ChangeDefaulted(stats[1].per_year, upstreamStats[1].per_year)

\* a <= b on timestamps; a comparison with NaN is false
TimestampLeq(a, b) == a # NaN /\ b # NaN /\ a <= b

\* C17: in every state after a fetch has completed, priceData is ordered
\* non-decreasing by normalised timestamp, for upstream data (points with unparsable
\* dates included) and for the synthetic series.
C17_PriceDataOrderedByTimestamp ==
    fetched =>
        \A k \in 1..(Len(priceData) - 1) :
            TimestampLeq(priceData[k].timestamp, priceData[k + 1].timestamp)

\* the messages of a non-2xx status begin with this text
IsStatusMessage(message) == message[1] = "API Error: "

\* the message of an unparsable or empty body
IsParseMessage(message) == message = <<"Failed to parse API response">>

\* C18: the error reported by fetchItemStats tells apart a non-2xx status, an
\* unparsable (or empty) body and a network or timeout failure: the three kinds
\* always give pairwise different error outcomes.
C18_FailureKindsDiscriminable ==
    /\ lastStep = "fetchStatusError" => IsStatusMessage(error) /\ ~IsParseMessage(error)
    /\ lastStep = "fetchParseError" => IsParseMessage(error) /\ ~IsStatusMessage(error)
    /\ lastStep \in {"fetchRejected", "fetchBodyReadError"}
         => ~IsStatusMessage(error) /\ ~IsParseMessage(error)

(***************************************************************************)
(* The long-hover detection of the chart.  longHoverTimeout is React state: *)
(* a handler reads the value of the render it was created in, and the       *)
(* mouse-move updates are batched, so a handler can run before the render   *)
(* that commits the previous handler's setLongHoverTimeout.                 *)
(***************************************************************************)
\* Number of timers setTimeout hands out.
MaxTimers == 3

\* the data-independent part of the view, which the hover handlers leave alone
viewVars == <<itemName, mounted, isLoading, isRefreshing, error, priceData, filteredData,
              displayData, stats, selectedPeriod, zoomDomain, dataPointLimit,
              showNoDataMessage, inflight, now, filterNow, zoomBefore, roundTrip, events,
              fetched, upstreamStats>>

InitHover ==
    /\ itemName \in Names
    /\ mounted = TRUE
    /\ isLoading = FALSE
    /\ isRefreshing = FALSE
    /\ error = Null
    /\ priceData = <<>>
    /\ filteredData = <<>>
    /\ displayData = <<>>
    /\ stats = Null
    /\ selectedPeriod = "1M"
    /\ zoomDomain = Null
    /\ dataPointLimit = DefaultDataPointLimit
    /\ showNoDataMessage = FALSE
    /\ inflight = EmptyBag
    /\ now = Today0
    /\ lastStep = "init"
    /\ filterNow = Today0
    /\ zoomBefore = Null
    /\ roundTrip = Null
    /\ events = 0
    /\ fetched = FALSE
    /\ upstreamStats = Null
    /\ HoverInit
    /\ ProxyInit
    /\ ProxyWaitInit
    /\ DashboardInit
    /\ MockInit
    /\ ExportInit

\* if (handle) clearTimeout(handle): the pending timers that remain
ClearTimeout(handle) ==
    IF handle = Null THEN hoverTimers ELSE {t \in hoverTimers : t[1] # handle[1]}

\* onMouseMove of the chart; the event has an activeCoordinate or not, and an
\* activePayload or not
handleChartMouseMove ==
    \E hasCoordinate \in BOOLEAN, hasPayload \in BOOLEAN :
        /\ ~unmounted
        /\ IF ~hasCoordinate
           THEN /\ hoverTimers' = ClearTimeout(renderedTimeout)
                /\ longHoverTimeout' = IF renderedTimeout # Null THEN Null ELSE longHoverTimeout
                /\ UNCHANGED nextTimerId
           ELSE /\ nextTimerId <= MaxTimers
                /\ hoverTimers' = ClearTimeout(renderedTimeout) \cup {<<nextTimerId, hasPayload>>}
                /\ longHoverTimeout' = <<nextTimerId>>
                /\ nextTimerId' = nextTimerId + 1
        /\ lastStep' = "handleChartMouseMove"
        /\ UNCHANGED <<renderedTimeout, longHoverInfo, unmounted>>
        /\ UNCHANGED <<viewVars, proxyVars, exportVars, mockVars, dashboardVars, proxyWaitVars>>

\* onMouseLeave of the chart
handleChartMouseLeave ==
    /\ ~unmounted
    /\ hoverTimers' = ClearTimeout(renderedTimeout)
    /\ longHoverTimeout' = IF renderedTimeout # Null THEN Null ELSE longHoverTimeout
    /\ longHoverInfo' = Null
    /\ lastStep' = "handleChartMouseLeave"
    /\ UNCHANGED <<renderedTimeout, nextTimerId, unmounted>>
    /\ UNCHANGED <<viewVars, proxyVars, exportVars, mockVars, dashboardVars, proxyWaitVars>>

\* React commits the render with the queued longHoverTimeout: the handlers are
\* created anew, and the effect on [longHoverTimeout] runs the cleanup of the
\* previous render
CommitRender ==
    /\ ~unmounted
    /\ renderedTimeout # longHoverTimeout
    /\ hoverTimers' = ClearTimeout(renderedTimeout)
    /\ renderedTimeout' = longHoverTimeout
    /\ lastStep' = "render"
    /\ UNCHANGED <<longHoverTimeout, longHoverInfo, nextTimerId, unmounted>>
    /\ UNCHANGED <<viewVars, proxyVars, exportVars, mockVars, dashboardVars, proxyWaitVars>>

\* the component is torn down: the cleanup of the committed render's effect runs
Unmount ==
    /\ ~unmounted
    /\ hoverTimers' = ClearTimeout(renderedTimeout)
    /\ unmounted' = TRUE
    /\ lastStep' = "unmount"
    /\ UNCHANGED <<longHoverTimeout, renderedTimeout, longHoverInfo, nextTimerId>>
    /\ UNCHANGED <<viewVars, proxyVars, exportVars, mockVars, dashboardVars, proxyWaitVars>>

\* the callback given to setTimeout(..., 500) runs
HoverTimerFires ==
    \E t \in hoverTimers :
        /\ hoverTimers' = hoverTimers \ {t}
        /\ longHoverInfo' = IF t[2] /\ ~unmounted THEN <<t[1]>> ELSE longHoverInfo
        /\ lastStep' = "hoverTimerFired"
        /\ UNCHANGED <<longHoverTimeout, renderedTimeout, nextTimerId, unmounted>>
        /\ UNCHANGED <<viewVars, proxyVars, exportVars, mockVars, dashboardVars, proxyWaitVars>>

NextHover ==
    \/ handleChartMouseMove
    \/ handleChartMouseLeave
    \/ CommitRender
    \/ Unmount
    \/ HoverTimerFires

SpecHover == InitHover /\ [][NextHover]_vars

\* C19: once a mouse-move has been handled the only pending hover timer is the
\* one it started, and once a mouse-leave or the unmount has been handled no
\* hover timer is pending (so none can set longHoverInfo afterwards).
C19_HoverTimerNeverOutlivesCause ==
    /\ lastStep = "handleChartMouseMove" =>
           \A t \in hoverTimers : longHoverTimeout = <<t[1]>>
    /\ lastStep \in {"handleChartMouseLeave", "unmount"} => hoverTimers = {}

(***************************************************************************)
(* The proxy route /api/types (src/app/api/types/route.ts).  A response is  *)
(* [status, body]; a body is a record of the fields of the JSON object.     *)
(***************************************************************************)
\* statuses the upstream API answers with
UpstreamStatuses == {200, 201, 400, 401, 403, 404, 500, 503}

\* response.ok
ResponseOk(status) == status >= 200 /\ status <= 299

\* upstream bodies JSON.parse accepts
JsonTexts == {"[]", "[{\"id\":1,\"name\":\"Sword\"}]", "{\"message\":\"duplicate name\"}"}

\* upstream bodies JSON.parse throws on (all shorter than 100 characters)
OtherTexts == {"", "Not Found", "<html><body>Bad Gateway</body></html>", "[{\"id\":"}

\* JSON.parse(text) returns
IsJson(text) == text \in JsonTexts

\* the value of JSON.parse(text)
JsonParse(text) == [json |-> text]

\* text.substring(0, 100) of the bodies above
Substring100(text) == text

\* what the upstream does: it answers with a status and a body, it answers
\* and the body cannot be read, or the request fails (or is aborted after 10 s)
UpstreamReplies(rejections) ==
    [kind : {"response"}, status : UpstreamStatuses, text : JsonTexts \cup OtherTexts]
        \cup [kind : {"bodyFailed"}, status : UpstreamStatuses, text : {"terminated"}]
        \cup [kind : {"rejected"}, status : {0}, text : rejections]

\* NextResponse.json(body, { status })
NextResponseJson(body, status) == [status |-> status, body |-> body]

\* NextResponse.json(data)
NextResponseData(data) == NextResponseJson(data, 200)

\* the response of GET for what the upstream did
GetResponse(reply) ==
    IF reply.kind = "rejected"
    THEN NextResponseJson([error |-> "Failed to fetch types from external API",
                           details |-> reply.text], 500)
    ELSE IF ~ResponseOk(reply.status)
    THEN NextResponseJson([error |-> <<"API responded with status: ", reply.status>>],
                          reply.status)
    ELSE IF reply.kind = "bodyFailed"
    THEN NextResponseJson([error |-> "Failed to fetch types from external API",
                           details |-> reply.text], 500)
    ELSE IF IsJson(reply.text)
    THEN NextResponseData(JsonParse(reply.text))
    ELSE NextResponseJson([error |-> "Invalid JSON response from server",
                           responseText |-> Substring100(reply.text)], 500)

\* the catch block of POST
PostCatch(message) ==
    NextResponseJson([error |-> "Failed to create type", details |-> message], 500)

\* the response of POST for what the upstream did
PostResponse(reply) ==
    IF reply.kind \in {"rejected", "bodyFailed"}
    THEN PostCatch(reply.text)
    ELSE IF ~ResponseOk(reply.status)
    THEN LET errorData == IF IsJson(reply.text) THEN JsonParse(reply.text)
                          ELSE [message |-> reply.text]
         IN  NextResponseJson([error |-> <<"API Error: ", reply.status>>,
                               details |-> errorData], reply.status)
    ELSE IF IsJson(reply.text)
    THEN NextResponseData(JsonParse(reply.text))
    ELSE NextResponseJson([error |-> "Invalid JSON response from server"], 500)

\* export async function GET()
GET ==
    \E reply \in UpstreamReplies({"fetch failed", "This operation was aborted"}) :
        /\ upstreamReply' = <<reply>>
        /\ proxyResponse' = <<GetResponse(reply)>>
        /\ lastStep' = "GET"
        /\ UNCHANGED <<viewVars, hoverVars, exportVars, mockVars, dashboardVars, proxyWaitVars>>

\* export async function POST(request); request.json() throws or not
POST ==
    \E requestIsJson \in BOOLEAN, reply \in UpstreamReplies({"fetch failed"}) :
        /\ IF requestIsJson
           THEN /\ upstreamReply' = <<reply>>
                /\ proxyResponse' = <<PostResponse(reply)>>
           ELSE /\ upstreamReply' = Null
                /\ proxyResponse' = <<PostCatch("Unexpected end of JSON input")>>
        /\ lastStep' = "POST"
        /\ UNCHANGED <<viewVars, hoverVars, exportVars, mockVars, dashboardVars, proxyWaitVars>>

InitProxy == InitHover

NextProxy == GET \/ POST

SpecProxy == InitProxy /\ [][NextProxy]_vars

\* the upstream answered the forwarded request with a non-2xx status
UpstreamNon2xx ==
    /\ upstreamReply # Null
    /\ upstreamReply[1].kind # "rejected"
    /\ ~ResponseOk(upstreamReply[1].status)

\* the upstream answered with a 2xx status and a body that is not JSON
UpstreamNonJson ==
    /\ upstreamReply # Null
    /\ upstreamReply[1].kind = "response"
    /\ ResponseOk(upstreamReply[1].status)
    /\ ~IsJson(upstreamReply[1].text)

\* C20: the response of GET and of POST to an upstream non-2xx status or to a
\* non-JSON upstream body is a JSON object with an error and a details field;
\* its status is the upstream status for non-2xx and 500 for a non-JSON body.
C20_ErrorEnvelopeIsUniform ==
    (lastStep \in {"GET", "POST"} /\ (UpstreamNon2xx \/ UpstreamNonJson)) =>
        /\ {"error", "details"} \subseteq DOMAIN proxyResponse[1].body
        /\ proxyResponse[1].status =
               IF UpstreamNon2xx THEN upstreamReply[1].status ELSE 500

(***************************************************************************)
(* CSV export.  The file is kept as the sequence of its lines (the parts    *)
(* joined with "\n"), a line as the sequence of its fields (the parts       *)
(* joined with ",").                                                        *)
(***************************************************************************)
\* a purchase_price of null: isNaN(null) is false, so the point passes the filter
NullPrice == 0 - 4

\* upstream points for the export: unparsable, numeric and null prices
ExportItems == [purchase_price : {NaN, 12000, NullPrice}, Date : RawDates]

\* upstream payloads of up to two points
ExportPayloads == {<<>>} \cup {<<item>> : item \in ExportItems}
                    \cup {<<first, second>> : first \in ExportItems, second \in ExportItems}

\* ["Date", "Time", "Price (G)"]
CsvHeader == <<"Date", "Time", "Price (G)">>

\* date.toLocaleDateString() and date.toLocaleTimeString(...) of new Date(item.Date)
LocaleDateString(date) == IF date = BadDate THEN <<"Invalid Date">> ELSE <<"date", date>>
LocaleTimeString(date) == IF date = BadDate THEN <<"Invalid Date">> ELSE <<"time", date>>

\* item.purchase_price.toString() throws a TypeError on null
ToStringThrows(item) == item.purchase_price = NullPrice

CsvRow(item) ==
    <<LocaleDateString(item.Date), LocaleTimeString(item.Date), <<"number", item.purchase_price>>>>

\* csvContent, or the exception that ends exportData before the download
CsvContent(data) ==
    IF \E k \in 1..Len(data) : ToStringThrows(data[k])
    THEN [threw |-> TRUE, lines |-> <<>>]
    ELSE [threw |-> FALSE, lines |-> <<CsvHeader>> \o [k \in 1..Len(data) |-> CsvRow(data[k])]]

\* the view after a fetch stored the processed payload, with any zoom range
InitExport ==
    /\ itemName \in Names
    /\ mounted = TRUE
    /\ isLoading = FALSE
    /\ isRefreshing = FALSE
    /\ error = Null
    /\ \E raw \in ExportPayloads : priceData = ProcessData(raw)
    /\ selectedPeriod \in {"1W", "ALL"}
    /\ dataPointLimit \in {1, DefaultDataPointLimit}
    /\ LET stored == filterDataByPeriod(priceData, selectedPeriod, Today0, dataPointLimit)
       IN  /\ filteredData = stored.filtered
           /\ displayData = stored.display
    /\ zoomDomain \in {Null} \cup {<<a, b>> : a \in 0..(Len(filteredData) - 1),
                                              b \in 0..(Len(filteredData) - 1)}
    /\ zoomDomain # Null => zoomDomain[1] <= zoomDomain[2]
    /\ stats = Null
    /\ showNoDataMessage = FALSE
    /\ inflight = EmptyBag
    /\ now = Today0
    /\ lastStep = "init"
    /\ filterNow = Today0
    /\ zoomBefore = Null
    /\ roundTrip = Null
    /\ events = 0
    /\ fetched = TRUE
    /\ upstreamStats = Null
    /\ HoverInit
    /\ ProxyInit
    /\ ProxyWaitInit
    /\ DashboardInit
    /\ MockInit
    /\ ExportInit

\* onClick of the Export button
exportData ==
    /\ download' = IF Len(filteredData) = 0 THEN download
                   ELSE <<CsvContent(filteredData)>>
    /\ lastStep' = "exportData"
    /\ UNCHANGED <<viewVars, hoverVars, proxyVars, mockVars, dashboardVars, proxyWaitVars>>

NextExport == exportData

SpecExport == InitExport /\ [][NextExport]_vars

\* C21: exporting a non-empty filtered series produces the header line followed
\* by one row per point of filteredData in series order, len(filteredData) + 1
\* lines, whatever the zoom range and the down-sampling; exporting an empty
\* filtered series produces nothing.
C21_CsvHasOneRowPerFilteredPoint ==
    lastStep = "exportData" =>
        IF Len(filteredData) = 0 THEN download = Null
        ELSE /\ download # Null
             /\ ~download[1].threw
             /\ Len(download[1].lines) = Len(filteredData) + 1
             /\ download[1].lines[1] = CsvHeader
             /\ \A k \in 1..Len(filteredData) :
                    download[1].lines[k + 1] = CsvRow(filteredData[k])

\* C22: filterDataByPeriod with period ALL sets filteredData to the series it is
\* given, unchanged (same points, same order), whatever the timestamps.
C22_AllPeriodKeepsSeries ==
    (lastStep = "filterDataByPeriod" /\ selectedPeriod = "ALL") => filteredData = priceData

\* C22 witness: period ALL has been applied to a series of several points, one of
\* which lies outside the one-year window (or has no usable timestamp).
C22_Witness ==
    /\ lastStep = "filterDataByPeriod"
    /\ selectedPeriod = "ALL"
    /\ Len(priceData) > 1
    /\ \E k \in 1..Len(priceData) : ~InWindow(priceData[k], CutoffDate("1Y", now))
    /\ \E k \in 1..Len(priceData) : InWindow(priceData[k], CutoffDate("1Y", now))
    /\ filteredData = priceData

(***************************************************************************)
(* generateMockData on its own: called again and again for one item name    *)
(* while the clock advances                                                 *)
(***************************************************************************)
\* "Unknown Item"
UnknownItem == <<85, 110, 107, 110, 111, 119, 110, 32, 73, 116, 101, 109>>

\* item names: the two above, the empty name, and short names whose code sums
\* fall on both sides of a multiple of 300
MockNames ==
    Names \cup {UnknownItem, <<>>}
        \cup {<<c>> : c \in {65, 299, 300, 301, 599, 600, 65535}}
        \cup {<<c, d>> : c \in {65, 200}, d \in {99, 100, 235}}

InitMock ==
    /\ itemName \in MockNames
    /\ mounted = TRUE
    /\ isLoading = FALSE
    /\ isRefreshing = FALSE
    /\ error = Null
    /\ priceData = <<>>
    /\ filteredData = <<>>
    /\ displayData = <<>>
    /\ stats = Null
    /\ selectedPeriod = "1M"
    /\ zoomDomain = Null
    /\ dataPointLimit = DefaultDataPointLimit
    /\ showNoDataMessage = FALSE
    /\ inflight = EmptyBag
    /\ now = Today0
    /\ lastStep = "init"
    /\ filterNow = Today0
    /\ zoomBefore = Null
    /\ roundTrip = Null
    /\ events = 0
    /\ fetched = FALSE
    /\ upstreamStats = Null
    /\ HoverInit
    /\ ProxyInit
    /\ ProxyWaitInit
    /\ DashboardInit
    /\ ExportInit
    /\ MockInit

\* const mockData = generateMockData(itemName); setPriceData(mockData.data);
\* setStats(mockData.stats)
MockStep ==
    /\ Event
    /\ LET mockData == MockDataOf(itemName, now)
       IN  /\ priceData' = mockData.data
           /\ stats' = <<mockData.stats>>
    /\ mockBasePrice' = <<BasePrice(itemName)>>
    /\ lastStep' = "generateMockData"
    /\ UNCHANGED <<itemName, mounted, isLoading, isRefreshing, error, filteredData, displayData,
                   selectedPeriod, zoomDomain, dataPointLimit, showNoDataMessage, inflight, now,
                   filterNow, zoomBefore, roundTrip, fetched, upstreamStats>>
    /\ UNCHANGED <<hoverVars, proxyVars, exportVars, dashboardVars, proxyWaitVars>>

\* a day passes between two calls
MockTick ==
    /\ now < Today0 + MaxEvents
    /\ now' = now + 1
    /\ lastStep' = "tick"
    /\ UNCHANGED <<itemName, mounted, isLoading, isRefreshing, error, priceData, filteredData,
                   displayData, stats, selectedPeriod, zoomDomain, dataPointLimit,
                   showNoDataMessage, inflight, filterNow, zoomBefore, roundTrip, events,
                   fetched, upstreamStats>>
    /\ UNCHANGED <<hoverVars, proxyVars, exportVars, mockVars, dashboardVars, proxyWaitVars>>

NextMock == MockStep \/ MockTick

SpecMock == InitMock /\ [][NextMock]_vars

\* C23: every call of generateMockData yields the base price
\* 200 + (sum of the name's character codes mod 300), which lies in 200..499 and
\* equals the base price of the previous call for the same name, and yields
\* exactly 366 points.
C23_MockBasePriceAndSizeDeterministic ==
    [][lastStep' = "generateMockData" =>
         /\ mockBasePrice'[1] = 200 + (SumCodes(itemName') % 300)
         /\ mockBasePrice'[1] \in 200..499
         /\ (mockBasePrice # Null /\ itemName' = itemName) => mockBasePrice' = mockBasePrice
         /\ Len(priceData') = 366]_vars

\* C23 witness: generateMockData has been called a second time, on a later day, for
\* a name whose code sum exceeds 300.
C23_Witness ==
    /\ lastStep = "generateMockData"
    /\ events >= 2
    /\ now > Today0
    /\ SumCodes(itemName) > 300
    /\ mockBasePrice = <<BasePrice(itemName)>>
    /\ Len(priceData) = 366
    /\ priceData[366].timestamp = now

\* C24: handleZoomIn on an active range [a,b] of the filtered series gives a range
\* with the same midpoint whose span is at most b - a, and at least 10 when b - a
\* was at least 10.
C24_ZoomInNeverWidens ==
    (lastStep = "handleZoomIn" /\ zoomBefore # Null
       /\ 0 <= zoomBefore[1] /\ zoomBefore[1] <= zoomBefore[2]
       /\ zoomBefore[2] <= Len(filteredData) - 1)
      => /\ zoomDomain[2] - zoomDomain[1] <= zoomBefore[2] - zoomBefore[1]
         /\ (zoomDomain[1] + zoomDomain[2]) \div 2 = (zoomBefore[1] + zoomBefore[2]) \div 2
         /\ zoomBefore[2] - zoomBefore[1] >= MinZoomRange
              => zoomDomain[2] - zoomDomain[1] >= MinZoomRange

\* C25: in every reachable state an active zoom range is valid for the current
\* filtered series: 0 <= start <= end <= len(filteredData) - 1.
C25_ZoomRangeValidForFilteredSeries ==
    zoomDomain # Null =>
        /\ 0 <= zoomDomain[1]
        /\ zoomDomain[1] <= zoomDomain[2]
        /\ zoomDomain[2] <= Len(filteredData) - 1

\* C26: a handleZoomOut step on an active range either clears the zoom or leaves a
\* range with a strictly larger span, so that repeated zoom-out clears the zoom
\* after finitely many steps.
C26_ZoomOutClearsOrEnlarges ==
    (lastStep = "handleZoomOut" /\ zoomDomain # Null)
      => zoomDomain[2] - zoomDomain[1] > zoomBefore[2] - zoomBefore[1]

\* C27: while a price fetch is in flight isLoading is true: the completion of one
\* fetch never clears isLoading or isRefreshing while another fetch is pending.
C27_LoadingWhileFetchInFlight ==
    BagCardinality(inflight) > 0 => isLoading

\* C28: the error banner and the no-data banner are never up together, and right
\* after a fetch that stored valid upstream data neither is up.
C28_BannersExclusiveAndCurrent ==
    /\ ~(error # Null /\ showNoDataMessage)
    /\ lastStep = "fetchData" => (error = Null /\ ~showNoDataMessage)

(***************************************************************************)
(* The dashboard page (src/app/dashboard/page.tsx): fetchData of the mount  *)
(* effect awaits fetchServerStats and then fetchEntityCounts.  Figures of   *)
(* the server statistics are in hundredths.                                 *)
(***************************************************************************)
\* const mockStats
mockStats ==
    [cpu_percent |-> 2550,
     memory |-> [total_gb |-> 1600, used_gb |-> 820, available_gb |-> 780, percent |-> 5125],
     disk   |-> [total_gb |-> 51200, used_gb |-> 25600, free_gb |-> 25600, percent |-> 5000]]

\* the mock counts of fetchData's catch handlers
mockCounts ==
    [items |-> 42, users |-> 15, weapons |-> 24, categories |-> 8, collections |-> 12,
     rarities |-> 6, types |-> 5]

\* statistics the server reports
UpstreamServerStats ==
    [cpu_percent |-> 7310,
     memory |-> [total_gb |-> 3200, used_gb |-> 2010, available_gb |-> 1190, percent |-> 6281],
     disk   |-> [total_gb |-> 100000, used_gb |-> 40000, free_gb |-> 60000, percent |-> 4000]]

\* what /api/server-stats does: the request fails, or it answers with a status and
\* a body that is the statistics, an object with an error field, or not JSON
ServerStatsReplies ==
    {[kind |-> "rejected", status |-> 0]}
        \cup [kind : {"stats", "errorField", "notJson"}, status : {200, 500, 503}]

\* fetchServerStats reaches its catch block
ServerStatsFailed(reply) ==
    reply.kind # "stats" \/ ~ResponseOk(reply.status)

\* the message given to setError in fetchServerStats (the Russian text of the
\* status message is rendered in English)
ServerStatsError(reply) ==
    IF reply.kind = "rejected" THEN <<"Failed to fetch">>
    ELSE IF ~ResponseOk(reply.status) THEN <<"Error fetching server statistics: ", reply.status>>
    ELSE IF reply.kind = "notJson" THEN <<"Unexpected token">>
    ELSE <<"stats unavailable">>

\* the entity routes, in the order of the Promise.all
EntityRoutes == <<"items", "weapons", "categories", "collections", "rarities", "types">>

\* what an entity route does: the request fails or answers a non-2xx status or a body
\* that is not JSON ("failed"), it answers an object, or an array of some length
EntityReplies == {[kind |-> "failed", length |-> 0], [kind |-> "object", length |-> 0],
                  [kind |-> "array", length |-> 3]}

\* Array.isArray(data) ? data.length : 0, data being [] after a failure
CountOf(reply) == IF reply.kind = "array" THEN reply.length ELSE 0

\* the mount effect up to the first await: fetchData calls fetchServerStats
DashboardMount ==
    /\ dashboardPc = "unmounted"
    /\ dashboardLoading' = TRUE
    /\ dashboardError' = Null
    /\ dashboardPc' = "serverStats"
    /\ lastStep' = "dashboardMount"
    /\ UNCHANGED <<serverStats, counts, serverStatsReply, entityReplies>>
    /\ UNCHANGED <<viewVars, hoverVars, proxyVars, exportVars, mockVars, proxyWaitVars>>

\* fetchServerStats settles: it catches its own errors, so the promise fetchData
\* awaits is fulfilled and neither .catch nor the catch block of fetchData runs;
\* fetchData goes on to fetchEntityCounts
fetchServerStats ==
    \E reply \in ServerStatsReplies :
        /\ dashboardPc = "serverStats"
        /\ serverStatsReply' = <<reply>>
        /\ IF ServerStatsFailed(reply)
           THEN /\ dashboardError' = ServerStatsError(reply)
                /\ UNCHANGED serverStats
           ELSE /\ serverStats' = UpstreamServerStats
                /\ UNCHANGED dashboardError
        /\ dashboardPc' = "entityCounts"
        /\ lastStep' = "fetchServerStats"
        /\ UNCHANGED <<counts, dashboardLoading, entityReplies>>
        /\ UNCHANGED <<viewVars, hoverVars, proxyVars, exportVars, mockVars, proxyWaitVars>>

\* fetchEntityCounts settles (fetchWithErrorHandling returns [] for every failure,
\* so Promise.all is fulfilled), then the finally block of fetchData
fetchEntityCounts ==
    \E replies \in [1..Len(EntityRoutes) -> EntityReplies] :
        /\ dashboardPc = "entityCounts"
        /\ entityReplies' = <<replies>>
        /\ counts' = [items       |-> CountOf(replies[1]),
                      users       |-> 0,
                      weapons     |-> CountOf(replies[2]),
                      categories  |-> CountOf(replies[3]),
                      collections |-> CountOf(replies[4]),
                      rarities    |-> CountOf(replies[5]),
                      types       |-> CountOf(replies[6])]
        /\ dashboardLoading' = FALSE
        /\ dashboardPc' = "done"
        /\ lastStep' = "fetchEntityCounts"
        /\ UNCHANGED <<serverStats, dashboardError, serverStatsReply>>
        /\ UNCHANGED <<viewVars, hoverVars, proxyVars, exportVars, mockVars, proxyWaitVars>>

InitDashboard == InitHover

NextDashboard ==
    \/ DashboardMount
    \/ fetchServerStats
    \/ fetchEntityCounts

SpecDashboard == InitDashboard /\ [][NextDashboard]_vars

\* C29: when loading has ended, serverStats is the mock statistics if the
\* server-stats request failed, and counts is the mock counts if fetching the
\* entity counts failed.
C29_DashboardFallsBackToMock ==
    (dashboardPc = "done" /\ ~dashboardLoading) =>
        /\ ServerStatsFailed(serverStatsReply[1]) => serverStats = mockStats
        /\ (\E k \in 1..Len(EntityRoutes) : entityReplies[1][k].kind = "failed")
              => counts = mockCounts

(***************************************************************************)
(* The /api/types handlers step by step: a handler is suspended at          *)
(* await fetch(...) and then at await response.text(), the upstream answers *)
(* each of them or never does, and GET's abort timer fires after 10 s       *)
(* unless clearTimeout has run.                                             *)
(***************************************************************************)
\* the handler is suspended at await fetch(...)
AwaitFetch(method) == <<[method |-> method, stage |-> "fetch", status |-> 0]>>

\* the handler is suspended at await response.text()
AwaitText(method, status) == <<[method |-> method, stage |-> "text", status |-> status]>>

\* the response of the handler of a method for what the upstream did
ResponseOf(method, reply) ==
    IF method = "GET" THEN GetResponse(reply) ELSE PostResponse(reply)

\* GET() up to await fetch(...): the abort timer is armed
ReceiveGet ==
    /\ proxyAwait = Null
    /\ proxyAwait' = AwaitFetch("GET")
    /\ abortTimer' = TRUE
    /\ upstreamReply' = Null
    /\ proxyResponse' = Null
    /\ lastStep' = "receiveGet"
    /\ UNCHANGED <<viewVars, hoverVars, exportVars, mockVars, dashboardVars>>

\* POST(request) up to await fetch(...): no timer is armed; when request.json()
\* throws the catch block answers at once
ReceivePost ==
    \E requestIsJson \in BOOLEAN :
        /\ proxyAwait = Null
        /\ IF requestIsJson
           THEN /\ proxyAwait' = AwaitFetch("POST")
                /\ proxyResponse' = Null
           ELSE /\ proxyAwait' = Null
                /\ proxyResponse' = <<PostCatch("Unexpected end of JSON input")>>
        /\ upstreamReply' = Null
        /\ lastStep' = "receivePost"
        /\ UNCHANGED abortTimer
        /\ UNCHANGED <<viewVars, hoverVars, exportVars, mockVars, dashboardVars>>

\* fetch(...) settles: the request fails, or the upstream's status line arrives
\* (GET then runs clearTimeout, and answers a non-2xx status at once)
FetchSettles ==
    \E rejected \in BOOLEAN, status \in UpstreamStatuses :
        /\ proxyAwait # Null
        /\ proxyAwait[1].stage = "fetch"
        /\ LET method == proxyAwait[1].method
               reply  == IF rejected
                         THEN [kind |-> "rejected", status |-> 0, text |-> "fetch failed"]
                         ELSE [kind |-> "response", status |-> status, text |-> ""]
           IN  IF rejected \/ (method = "GET" /\ ~ResponseOk(status))
               THEN /\ proxyAwait' = Null
                    /\ upstreamReply' = <<reply>>
                    /\ proxyResponse' = <<ResponseOf(method, reply)>>
                    /\ abortTimer' = IF rejected THEN abortTimer ELSE FALSE
               ELSE /\ proxyAwait' = AwaitText(method, status)
                    /\ abortTimer' = FALSE
                    /\ UNCHANGED <<upstreamReply, proxyResponse>>
        /\ lastStep' = "fetchSettles"
        /\ UNCHANGED <<viewVars, hoverVars, exportVars, mockVars, dashboardVars>>

\* response.text() settles: the body has arrived, or reading it failed
TextSettles ==
    \E failed \in BOOLEAN, text \in JsonTexts \cup OtherTexts :
        /\ proxyAwait # Null
        /\ proxyAwait[1].stage = "text"
        /\ LET reply == IF failed
                        THEN [kind |-> "bodyFailed", status |-> proxyAwait[1].status,
                              text |-> "terminated"]
                        ELSE [kind |-> "response", status |-> proxyAwait[1].status,
                              text |-> text]
           IN  /\ upstreamReply' = <<reply>>
               /\ proxyResponse' = <<ResponseOf(proxyAwait[1].method, reply)>>
        /\ proxyAwait' = Null
        /\ lastStep' = "textSettles"
        /\ UNCHANGED abortTimer
        /\ UNCHANGED <<viewVars, hoverVars, exportVars, mockVars, dashboardVars>>

\* setTimeout(() => controller.abort(), 10000) fires: a GET suspended at its fetch
\* is answered by the catch block; otherwise the abort has nothing to abort
AbortTimerFires ==
    /\ abortTimer
    /\ abortTimer' = FALSE
    /\ IF proxyAwait # Null /\ proxyAwait[1].method = "GET" /\ proxyAwait[1].stage = "fetch"
       THEN LET reply == [kind |-> "rejected", status |-> 0,
                          text |-> "This operation was aborted"]
            IN  /\ proxyAwait' = Null
                /\ upstreamReply' = <<reply>>
                /\ proxyResponse' = <<GetResponse(reply)>>
       ELSE UNCHANGED <<proxyAwait, upstreamReply, proxyResponse>>
    /\ lastStep' = "abortTimerFires"
    /\ UNCHANGED <<viewVars, hoverVars, exportVars, mockVars, dashboardVars>>

InitProxyWait == InitHover

NextProxyWait ==
    \/ ReceiveGet
    \/ ReceivePost
    \/ FetchSettles
    \/ TextSettles
    \/ AbortTimerFires

\* an armed timer fires; nothing makes the upstream answer
SpecProxyWait == InitProxyWait /\ [][NextProxyWait]_vars /\ WF_vars(AbortTimerFires)

\* C30: every request to /api/types, GET or POST, is eventually answered, even if
\* the upstream never answers.
C30_EveryRequestIsAnswered ==
    [](proxyAwait # Null => <>(proxyAwait = Null /\ proxyResponse # Null))

====
